---- MODULE Spec2Model ----
(***************************************************************************)
(* File Search Tool (file_search_gui.py): the scanner search_files with    *)
(* its helper get_owner, and the window's handlers browse_path and         *)
(* on_search.                                                              *)
(*                                                                         *)
(* Strings that the program takes apart (the text of the path field, the   *)
(* paths it is split into) are sequences of symbols: " ", ";" and one      *)
(* symbol for each path name.  A file path is the pair <<root, file>> that *)
(* os.path.join(root, file) is given.                                      *)
(***************************************************************************)
EXTENDS Integers, Sequences, FiniteSets, TLC

VARIABLES
    fs,               \* the file tree's metadata: file path -> what the os calls return
    platform_system,  \* platform.system()
    paths_edit,       \* MainWindow.paths_edit.text()
    table,            \* MainWindow.results_table: its rows
    sortingEnabled,   \* MainWindow.results_table.isSortingEnabled()
    warning,          \* the last on_search showed QMessageBox.warning
    pc,               \* "idle" (window shown), "called" (search_files entered), "returned"
    call,             \* the arguments of the current / last search_files call
    ret               \* what that call gave back: [raised, results]

vars == <<fs, platform_system, paths_edit, table, sortingEnabled, warning, pc, call, ret>>

-----------------------------------------------------------------------------
(* Bounds of the model *)

MaxPaths == 2       \* longest list of paths handed to search_files directly
MaxDays == 1        \* largest days_threshold handed to search_files directly
MaxThreshold == 1   \* largest size_threshold handed to search_files directly
MaxText == 3        \* longest text of the path field, in symbols

\* the largest integer the model checker computes with
MaxBytes == 2 * (1024 * 1024 * 1024 - 1) + 1

-----------------------------------------------------------------------------
(* The file tree the scans run on: /a holds f, g and the directory b;     *)
(* /a/b holds another f; /c holds another g; /x is no directory.           *)

Dirs == {"/a", "/a/b", "/c"}
PathNames == Dirs \cup {"/x"}

listdir_dirs == [d \in Dirs |-> IF d = "/a" THEN <<"/a/b">> ELSE <<>>]
listdir_files ==
    [d \in Dirs |-> IF d = "/a" THEN <<"f", "g">> ELSE IF d = "/a/b" THEN <<"f">> ELSE <<"g">>]

os_path_join(root, file) == <<root, file>>

FilePaths ==
    {os_path_join("/a", "f"), os_path_join("/a", "g"), os_path_join("/a/b", "f"),
     os_path_join("/c", "g")}

Day == 24 * 3600

\* the reading of time.time(): the clock does not move during the model's scans
time_time == 10 * Day

\* What the os has to say about one file.  fails names the first call on the
\* file that raises OSError ("none": no call does); uid_known is whether
\* pwd.getpwuid finds st_uid.
Attr(fails, ctime, size, uid_known) ==
    [fails |-> fails, ctime |-> ctime, size |-> size, uid_known |-> uid_known]

Fresh == Attr("none", time_time, 1048000, TRUE)
AtCutoff == Attr("none", time_time - Day, 1024, TRUE)
Old == Attr("none", time_time - Day - 1, 1024, TRUE)
Empty == Attr("none", time_time, 0, TRUE)
Mega == Attr("none", time_time, 1024 * 1024, TRUE)
NoCtime == Attr("getctime", time_time, 1024, TRUE)
NoSize == Attr("getsize", time_time, 1024, TRUE)
NoUser == Attr("none", time_time - Day, 1024, FALSE)
NoStat == Attr("stat", time_time, 1024, TRUE)

Profiles == {Fresh, AtCutoff, Old, Empty, Mega, NoCtime, NoSize, NoUser, NoStat}

\* the trees of the model: /a/g is any file, its neighbours are fewer
Trees ==
    {t \in [FilePaths -> Profiles] :
        /\ t[os_path_join("/a", "f")] \in {Fresh, NoUser}
        /\ t[os_path_join("/a/b", "f")] \in {AtCutoff, Old}
        /\ t[os_path_join("/c", "g")] = Fresh}

Platforms == {"Linux", "Windows"}

-----------------------------------------------------------------------------
(* os and pwd *)

\* a path is a sequence of symbols; a directory's path is its one symbol
os_path_isdir(path) == Len(path) = 1 /\ path[1] \in Dirs

RECURSIVE walk_dir(_)
RECURSIVE walk_each(_)
\* the walk of a directory, top-down: (root, files) of top, then of each
\* directory below it
walk_dir(top) ==
    <<[root |-> top, files |-> listdir_files[top]]>> \o walk_each(listdir_dirs[top])
walk_each(ds) ==
    IF ds = <<>> THEN <<>> ELSE walk_dir(Head(ds)) \o walk_each(Tail(ds))

\* os.walk(path): what is no directory cannot be listed, the error is
\* swallowed (onerror is None) and nothing is yielded
os_walk(path) == IF os_path_isdir(path) THEN walk_dir(path[1]) ELSE <<>>

\* pwd is None where the import fails
pwd == platform_system # "Windows"

Value(v) == [raised |-> FALSE, value |-> v]
Raise == [raised |-> TRUE, value |-> "exception"]

os_path_getctime(filepath) ==
    IF fs[filepath].fails = "getctime" THEN Raise ELSE Value(fs[filepath].ctime)

os_path_getsize(filepath) ==
    IF fs[filepath].fails \in {"getctime", "getsize"} THEN Raise ELSE Value(fs[filepath].size)

os_stat(filepath) ==
    IF fs[filepath].fails # "none" THEN Raise ELSE Value("st")

pwd_getpwuid(filepath) ==
    IF fs[filepath].uid_known THEN Value("user") ELSE Raise

-----------------------------------------------------------------------------
(* get_owner *)

get_owner(filepath) ==
    IF platform_system # "Windows"
    THEN IF pwd
         THEN IF os_stat(filepath).raised THEN Raise ELSE pwd_getpwuid(filepath)
         ELSE Value("Unknown-Owner-UNIX")
    ELSE Value("Unknown-Owner-Windows")

-----------------------------------------------------------------------------
(* search_files *)

Units == {"B", "KB", "MB", "GB"}

\* the table with a KB of 1000 bytes
unit_conversion_kilo ==
    [u \in Units |->
        CASE u = "B" -> 1
          [] u = "KB" -> 1000
          [] u = "MB" -> 1024 * 1024
          [] u = "GB" -> 1024 * 1024 * 1024]

unit_conversion ==
    [u \in Units |->
        CASE u = "B" -> 1
          [] u = "KB" -> 1024
          [] u = "MB" -> 1024 * 1024
          [] u = "GB" -> 1024 * 1024 * 1024]

\* unit_conversion.get(size_unit, 1)
unit_conversion_get(size_unit, default) ==
    IF size_unit \in DOMAIN unit_conversion THEN unit_conversion[size_unit] ELSE default

\* unit_conversion[size_unit]: KeyError for a unit that is no key
unit_conversion_item(size_unit) ==
    IF size_unit \in DOMAIN unit_conversion THEN Value(unit_conversion[size_unit]) ELSE Raise

threshold_in_bytes(size_threshold, size_unit) ==
    size_threshold * unit_conversion_get(size_unit, 1)

cutoff_time(now, days_threshold) == now - (days_threshold * 24 * 3600)

\* strftime('%Y-%m-%d %H:%M:%S'): the day and the second of the day
strftime(c_time) == <<c_time \div Day, c_time % Day>>

\* f_size / unit_conversion[size_unit], kept as the fraction
true_div(f_size, unit) == <<f_size, unit>>

Record(filepath, c_time, owner, f_size, unit) ==
    [filepath |-> filepath, c_time_str |-> strftime(c_time), owner |-> owner,
     displayed_size |-> true_div(f_size, unit), c_time |-> c_time]

\* results.insert(0, ...)
emit_front(results, rec) == <<rec>> \o results

\* results.append(...)
emit(results, rec) == Append(results, rec)

\* the body of the try block for one file: the exception it ends with, if
\* any, and the results after it
try_file(results, filepath, cutoff, threshold, size_unit) ==
    LET c_time == os_path_getctime(filepath)
        f_size == os_path_getsize(filepath)
        owner == get_owner(filepath)
        unit == unit_conversion_item(size_unit)
        Out(raised, res) == [raised |-> raised, results |-> res]
    IN
    IF c_time.raised THEN Out(TRUE, results)
    ELSE IF ~(c_time.value >= cutoff) THEN Out(FALSE, results)
    ELSE IF f_size.raised THEN Out(TRUE, results)
    ELSE IF ~(f_size.value >= threshold) THEN Out(FALSE, results)
    ELSE IF owner.raised THEN Out(TRUE, results)
    ELSE IF unit.raised THEN Out(TRUE, results)
    ELSE Out(FALSE,
             emit(results, Record(filepath, c_time.value, owner.value,
                                  f_size.value, unit.value)))

\* try: ... except Exception: pass
visit_file(results, filepath, cutoff, threshold, size_unit) ==
    LET t == try_file(results, filepath, cutoff, threshold, size_unit)
    IN [raised |-> FALSE, results |-> t.results]

RECURSIVE scan_files(_, _, _, _, _, _)
\* for file in files: one directory's files, joined to its root
scan_files(root, files, out, cutoff, threshold, size_unit) ==
    IF files = <<>> \/ out.raised THEN out
    ELSE scan_files(root, Tail(files),
                    visit_file(out.results, os_path_join(root, Head(files)),
                               cutoff, threshold, size_unit),
                    cutoff, threshold, size_unit)

RECURSIVE scan_walk_top(_, _, _, _, _, _)
\* the walk with os.path.join(path, file): files joined to the top, not to their root
scan_walk_top(path, walk, out, cutoff, threshold, size_unit) ==
    IF walk = <<>> \/ out.raised THEN out
    ELSE scan_walk_top(path, Tail(walk),
                       scan_files(path[1], Head(walk).files, out, cutoff, threshold, size_unit),
                       cutoff, threshold, size_unit)

RECURSIVE scan_walk(_, _, _, _, _, _)
\* for root, _, files in os.walk(path)
scan_walk(path, walk, out, cutoff, threshold, size_unit) ==
    IF walk = <<>> \/ out.raised THEN out
    ELSE scan_walk(path, Tail(walk),
                   scan_files(Head(walk).root, Head(walk).files, out,
                              cutoff, threshold, size_unit),
                   cutoff, threshold, size_unit)

RECURSIVE scan_paths_break(_, _, _, _, _)
\* the loop with break in place of continue
scan_paths_break(paths, out, cutoff, threshold, size_unit) ==
    IF paths = <<>> \/ out.raised THEN out
    ELSE IF ~os_path_isdir(Head(paths))
    THEN out
    ELSE scan_paths_break(Tail(paths),
                          scan_walk(Head(paths), os_walk(Head(paths)), out,
                                    cutoff, threshold, size_unit),
                          cutoff, threshold, size_unit)

RECURSIVE scan_paths(_, _, _, _, _)
\* for path in paths
scan_paths(paths, out, cutoff, threshold, size_unit) ==
    IF paths = <<>> \/ out.raised THEN out
    ELSE IF ~os_path_isdir(Head(paths))
    THEN scan_paths(Tail(paths), out, cutoff, threshold, size_unit)
    ELSE scan_paths(Tail(paths),
                    scan_walk(Head(paths), os_walk(Head(paths)), out,
                              cutoff, threshold, size_unit),
                    cutoff, threshold, size_unit)

search_files(paths, days_threshold, size_threshold, size_unit) ==
    scan_paths(paths, [raised |-> FALSE, results |-> <<>>],
               cutoff_time(time_time, days_threshold),
               threshold_in_bytes(size_threshold, size_unit), size_unit)

-----------------------------------------------------------------------------
(* str.strip and str.split on sequences of symbols *)

Symbols == {" ", ";"} \cup PathNames

RECURSIVE lstrip(_)
lstrip(s) == IF s # <<>> /\ Head(s) = " " THEN lstrip(Tail(s)) ELSE s

RECURSIVE rstrip(_)
rstrip(s) ==
    IF s # <<>> /\ s[Len(s)] = " " THEN rstrip(SubSeq(s, 1, Len(s) - 1)) ELSE s

strip(s) == rstrip(lstrip(s))

RECURSIVE split(_, _)
\* s.split(sep): the pieces between the separators, empty pieces kept
split(s, sep) ==
    IF \E i \in DOMAIN s : s[i] = sep
    THEN LET i == CHOOSE k \in DOMAIN s : s[k] = sep /\ \A j \in 1..(k - 1) : s[j] # sep
         IN <<SubSeq(s, 1, i - 1)>> \o split(SubSeq(s, i + 1, Len(s)), sep)
    ELSE <<s>>

RECURSIVE strip_nonempty(_)
\* [p.strip() for p in pieces if p.strip()]
strip_nonempty(pieces) ==
    IF pieces = <<>> THEN <<>>
    ELSE IF strip(Head(pieces)) # <<>>
    THEN <<strip(Head(pieces))>> \o strip_nonempty(Tail(pieces))
    ELSE strip_nonempty(Tail(pieces))

-----------------------------------------------------------------------------
(* MainWindow *)

days_spin == 7
size_spin == 100
unit_combo == "KB"

NoCall == [paths |-> <<>>, days_threshold |-> 0, size_threshold |-> 0, size_unit |-> "none"]
NoRet == [raised |-> FALSE, results |-> <<>>]

Args(paths, days_threshold, size_threshold, size_unit) ==
    [paths |-> paths, days_threshold |-> days_threshold,
     size_threshold |-> size_threshold, size_unit |-> size_unit]

\* f"{size_val:.2f} {size_unit}": hundredths of the unit, rounded
format_size(size_val, size_unit) ==
    <<(200 * size_val[1] + size_val[2]) \div (2 * size_val[2]), size_unit>>

\* one row of the table: the four items' texts and their Qt.UserRole data
Row(rec, size_unit) ==
    [path |-> rec.filepath, ctime |-> rec.c_time_str, owner |-> rec.owner,
     size |-> format_size(rec.displayed_size, size_unit),
     ctime_data |-> rec.c_time, size_data |-> rec.displayed_size]

\* the user types one more symbol into the path field
type_symbol(c) ==
    /\ pc = "idle"
    /\ Len(paths_edit) < MaxText
    /\ paths_edit' = Append(paths_edit, c)
    /\ UNCHANGED <<fs, platform_system, table, sortingEnabled, warning, pc, call, ret>>

\* the user deletes the last symbol of the path field
backspace ==
    /\ pc = "idle"
    /\ paths_edit # <<>>
    /\ paths_edit' = SubSeq(paths_edit, 1, Len(paths_edit) - 1)
    /\ UNCHANGED <<fs, platform_system, table, sortingEnabled, warning, pc, call, ret>>

\* directory: what QFileDialog.getExistingDirectory gave, <<>> when cancelled
browse_path(directory) ==
    /\ pc = "idle"
    /\ LET current_text == strip(paths_edit)
           new_text == IF current_text # <<>>
                       THEN current_text \o <<";">> \o directory
                       ELSE directory
       IN IF directory # <<>>
          THEN /\ Len(new_text) <= MaxText
               /\ paths_edit' = new_text
          ELSE UNCHANGED paths_edit
    /\ UNCHANGED <<fs, platform_system, table, sortingEnabled, warning, pc, call, ret>>

on_search ==
    /\ pc = "idle"
    /\ LET raw_paths == strip(paths_edit)
           paths == strip_nonempty(split(raw_paths, ";"))
           results == search_files(paths, days_spin, size_spin, unit_combo)
       IN IF raw_paths = <<>>
          THEN /\ warning' = TRUE
               /\ UNCHANGED <<table, sortingEnabled, call, ret>>
          ELSE /\ warning' = FALSE
               /\ call' = Args(paths, days_spin, size_spin, unit_combo)
               /\ ret' = results
               /\ table' = [r \in DOMAIN results.results |->
                               Row(results.results[r], unit_combo)]
               /\ sortingEnabled' = TRUE
    /\ UNCHANGED <<fs, platform_system, paths_edit, pc>>

\* a direct call of search_files runs to its return
search_files_call ==
    /\ pc = "called"
    /\ ret' = search_files(call.paths, call.days_threshold, call.size_threshold,
                           call.size_unit)
    /\ pc' = "returned"
    /\ UNCHANGED <<fs, platform_system, paths_edit, table, sortingEnabled, warning, call>>

-----------------------------------------------------------------------------
(* Specifications *)

PathChoices == {<<n>> : n \in PathNames}
PathLists == UNION {[1..n -> PathChoices] : n \in 0..MaxPaths}
UnitChoices == Units \cup {"TB"}

Window ==
    /\ paths_edit = <<>>
    /\ table = <<>>
    /\ sortingEnabled = TRUE
    /\ warning = FALSE

\* search_files called on its own: any arguments, any tree
Init ==
    /\ fs \in Trees
    /\ platform_system \in Platforms
    /\ Window
    /\ pc = "called"
    /\ \E paths \in PathLists, d \in 0..MaxDays, t \in 0..MaxThreshold, u \in UnitChoices :
          /\ t <= MaxBytes \div unit_conversion_get(u, 1)
          /\ call = Args(paths, d, t, u)
    /\ ret = NoRet

Next == search_files_call

Spec == Init /\ [][Next]_vars

\* the window after construction, over a tree that the default filters
\* (7 days, 100 KB) tell apart
InitGUI ==
    /\ fs \in {t \in Trees : /\ t[os_path_join("/a", "f")] = Fresh
                              /\ t[os_path_join("/a", "g")] \in {Fresh, NoCtime}
                              /\ t[os_path_join("/a/b", "f")] = AtCutoff}
    /\ platform_system \in Platforms
    /\ Window
    /\ pc = "idle"
    /\ call = NoCall
    /\ ret = NoRet

NextGUI ==
    \/ \E c \in Symbols : type_symbol(c)
    \/ backspace
    \/ \E d \in {<<>>} \cup {<<n>> : n \in Dirs} : browse_path(d)
    \/ on_search

SpecGUI == InitGUI /\ [][NextGUI]_vars

-----------------------------------------------------------------------------
(* What the claims speak of *)

Returned == pc = "returned"
Results == ret.results

PathsOf(results) == [i \in DOMAIN results |-> results[i].filepath]
PathSet(results) == {results[i].filepath : i \in DOMAIN results}
ResultPaths == PathSet(Results)
InResult(fp) == fp \in ResultPaths
Count(fp) == Cardinality({i \in DOMAIN Results : Results[i].filepath = fp})

RECURSIVE Below(_)
\* a directory and the directories under it
Below(d) == {d} \cup UNION {Below(listdir_dirs[d][i]) : i \in DOMAIN listdir_dirs[d]}
FilesIn(d) == {os_path_join(d, listdir_files[d][i]) : i \in DOMAIN listdir_files[d]}
FilesUnder(d) == UNION {FilesIn(e) : e \in Below(d)}

\* the positions of paths that hold a directory, and the files under them
ValidRoots == {i \in DOMAIN call.paths : os_path_isdir(call.paths[i])}
Scanned == UNION {FilesUnder(call.paths[i][1]) : i \in ValidRoots}
Cover(fp) == Cardinality({i \in ValidRoots : fp \in FilesUnder(call.paths[i][1])})

\* the byte multiplier of a unit: B=1, KB=1024, MB=1024^2, GB=1024^3
Multiplier(u) ==
    CASE u = "B" -> 1
      [] u = "KB" -> 1024
      [] u = "MB" -> 1024 * 1024
      [] u = "GB" -> 1024 * 1024 * 1024
      [] OTHER -> 1

Cutoff == time_time - call.days_threshold * 86400
MinBytes == call.size_threshold * Multiplier(call.size_unit)

Readable(fp) == fs[fp].fails \notin {"getctime", "getsize"}
AgeOK(fp) == fs[fp].ctime >= Cutoff
SizeOK(fp) == fs[fp].size >= MinBytes
\* the owner of fp cannot be resolved: the stat of get_owner fails or the uid
\* has no user name
OwnerFails(fp) ==
    platform_system # "Windows" /\ (fs[fp].fails = "stat" \/ ~fs[fp].uid_known)

Placeholders == {"Unknown-Owner-UNIX", "Unknown-Owner-Windows"}

\* the scan of the same tree with other arguments
Rescan(paths, size_threshold, size_unit) ==
    search_files(paths, call.days_threshold, size_threshold, size_unit)

RECURSIVE Flat(_)
\* the file paths of a walk, in the order the walk yields them
Flat(walk) ==
    IF walk = <<>> THEN <<>>
    ELSE [i \in DOMAIN Head(walk).files |-> os_path_join(Head(walk).root, Head(walk).files[i])]
         \o Flat(Tail(walk))

RECURSIVE Traversal(_)
\* the files visited for a list of paths, in the order of the visits
Traversal(paths) ==
    IF paths = <<>> THEN <<>> ELSE Flat(os_walk(Head(paths))) \o Traversal(Tail(paths))

-----------------------------------------------------------------------------
(* The claims *)

\* C1: with size_unit in {B, KB, MB, GB}, a file under a directory of paths
\* whose timestamp and size can be read is in the returned list if and only if
\* ctime >= now - days_threshold*86400 and size >= size_threshold * multiplier.
C1_IncludedIffBothFilters ==
    (Returned /\ call.size_unit \in Units) =>
        \A fp \in Scanned :
            Readable(fp) => (fp \in ResultPaths <=> (AgeOK(fp) /\ SizeOK(fp)))

\* C2: a file that passes both filters and whose owner cannot be resolved
\* still has a record, with a placeholder as owner, and nothing is raised.
C2_OwnerFailureKeepsRecord ==
    (Returned /\ call.size_unit \in Units) =>
        /\ ~ret.raised
        /\ \A fp \in Scanned :
              (Readable(fp) /\ AgeOK(fp) /\ SizeOK(fp) /\ OwnerFails(fp)) =>
                  \E i \in DOMAIN Results :
                      Results[i].filepath = fp /\ Results[i].owner \in Placeholders

\* C3: when the timestamp or the size of a file cannot be read, exactly that
\* file is left out and nothing is raised: every other file under the roots
\* that passes both filters is in the result.
C3_UnreadableFileOnlyItselfExcluded ==
    (Returned /\ call.size_unit \in Units /\ \E bad \in Scanned : ~Readable(bad)) =>
        /\ ~ret.raised
        /\ \A fp \in Scanned :
              /\ ~Readable(fp) => fp \notin ResultPaths
              /\ (Readable(fp) /\ AgeOK(fp) /\ SizeOK(fp)) => fp \in ResultPaths

\* C4: a path that is no directory raises nothing and gives no record, and the
\* directories before and after it are scanned as if it were not in the list;
\* without any directory in paths the result is empty.
C4_InvalidPathSkipped ==
    Returned =>
        /\ ~ret.raised
        /\ ResultPaths \subseteq Scanned
        /\ Results = Rescan(SelectSeq(call.paths, os_path_isdir),
                            call.size_threshold, call.size_unit).results
        /\ \A i \in ValidRoots :
              PathSet(Rescan(<<call.paths[i]>>, call.size_threshold,
                             call.size_unit).results) \subseteq ResultPaths
        /\ ValidRoots = {} => Results = <<>>

\* C4's case: a path that is no directory stands before a directory whose
\* files are returned
C4_Witness ==
    /\ Returned
    /\ Len(call.paths) = 2
    /\ ~os_path_isdir(call.paths[1])
    /\ os_path_isdir(call.paths[2])
    /\ Results # <<>>

\* C5: both comparisons are inclusive: a readable file with ctime equal to the
\* cutoff and size equal to size_threshold * multiplier is in the result.
C5_BoundaryFileIncluded ==
    (Returned /\ call.size_unit \in Units) =>
        \A fp \in Scanned :
            (Readable(fp) /\ fs[fp].ctime = Cutoff /\ fs[fp].size = MinBytes) =>
                fp \in ResultPaths

\* C6: the threshold X in KB, MB or GB returns the same set of file paths as
\* the threshold X*1024 in the next smaller unit, over the same roots, days,
\* tree and clock.
C6_UnitRoundTrip ==
    (Returned /\ call.size_unit \in {"KB", "MB", "GB"}) =>
        LET smaller == CASE call.size_unit = "KB" -> "B"
                         [] call.size_unit = "MB" -> "KB"
                         [] call.size_unit = "GB" -> "MB"
        IN ResultPaths = PathSet(Rescan(call.paths, call.size_threshold * 1024, smaller).results)

\* C6's case: a scan with threshold 1 MB that returns the file of exactly
\* 1 MB and leaves out a smaller one that is recent enough
C6_Witness ==
    /\ Returned
    /\ call.size_unit = "MB"
    /\ call.size_threshold = 1
    /\ \E fp \in ResultPaths : fs[fp].size = 1024 * 1024
    /\ \E fp \in Scanned \ ResultPaths : Readable(fp) /\ AgeOK(fp) /\ fs[fp].size > 0

\* C7 as stated: no file path occurs in two records of one result, whatever
\* the list of roots.
C7_NoPathTwice ==
    Returned => \A fp \in FilePaths : Count(fp) <= 1

\* C7 as amended: a file has no record, or one record for each root of paths
\* it lies under; so no path occurs twice unless a root is repeated or lies
\* under another root.
C7_OneRecordPerRootAbove ==
    Returned => \A fp \in FilePaths : Count(fp) \in {0, Cover(fp)}

\* C7's case: a root listed after a directory under it: the file under both
\* has two records and a file under the one root has one
C7_Witness ==
    /\ Returned
    /\ call.paths = << <<"/a/b">>, <<"/a">> >>
    /\ Count(os_path_join("/a/b", "f")) = 2
    /\ Count(os_path_join("/a", "f")) = 1

\* C8: the records are in the order of the visits, the roots in the order of
\* paths: the result is the sequence of visited files, less the files that
\* have no record.
C8_TraversalOrder ==
    Returned => PathsOf(Results) = SelectSeq(Traversal(call.paths), InResult)

\* C8's case: two different roots, the second with two records of its own
\* that come after the record of the first
C8_Witness ==
    /\ Returned
    /\ call.paths = << <<"/c">>, <<"/a">> >>
    /\ Len(Results) >= 3
    /\ Results[1].filepath = os_path_join("/c", "g")

\* C9: when the path field holds no path (its text is empty, blank or only
\* separators), on_search warns, does not call search_files and leaves the
\* table and its sorting flag as they are; search_files is never called with
\* an empty list of paths.
C9_NoPathsWarnsAndKeepsTable ==
    [][/\ (on_search /\ strip_nonempty(split(strip(paths_edit), ";")) = <<>>) =>
            (warning' /\ table' = table /\ sortingEnabled' = sortingEnabled /\ call' = call)
       /\ call' # call => call'.paths # <<>>]_vars

\* C10: for a size_unit outside {B, KB, MB, GB} the threshold is in bytes and
\* every readable, recent enough file of at least size_threshold bytes (whose
\* owner resolves) is returned.
C10_UnknownUnitFallsBackToBytes ==
    (Returned /\ call.size_unit \notin Units) =>
        \A fp \in Scanned :
            (Readable(fp) /\ AgeOK(fp) /\ fs[fp].size >= call.size_threshold
                /\ ~OwnerFails(fp)) => fp \in ResultPaths

====
